---- MODULE Spec2Model ----
(***************************************************************************)
(* Model of digraphtools: the Varol-Rotem linear extension enumerator      *)
(* (topsort.py), and the order verification helper and the depth-first     *)
(* topological traversal (digraphtools.py).                                *)
(*                                                                         *)
(* Python lists are modelled as TLA+ sequences; the Python index x of a    *)
(* list l is the TLA+ index x+1 (see PyIdx, PySlice, PySliceAssign).       *)
(***************************************************************************)
EXTENDS Integers, Sequences, FiniteSets, TLC

\* Bounds of the explored inputs.
MaxN == 4
MaxLen == 2
MaxVN == 3
MaxVLen == 2
\* Bounds of the inputs explored under fairness.
MaxFairN == 4
MaxFairLen == 1

\* Bounds of the graphs traversed and of the inputs of the paired runs.
MaxG == 3
MaxPairN == 3
MaxPairLen == 2

VARIABLES n, poset, pc, idx, grid, m, loc, p, i, k, kk, out, items, vres,
          graph, root, stack, seen, trav,
          runs, got, stopped

\* State of a dfs_topsort_traversal(graph, root) call.
dfsVars == <<graph, root, stack, seen, trav>>

\* State of the generators driven side by side and of their consumers.
pairVars == <<runs, got, stopped>>

vars == <<n, poset, pc, idx, grid, m, loc, p, i, k, kk, out, items, vres,
          graph, root, stack, seen, trav, runs, got, stopped>>

----------------------------------------------------------------------------
\* Python list primitives.

\* l[x]
PyIdx(l, x) == l[x + 1]

\* l[x] = v
PySet(l, x, v) == [l EXCEPT ![x + 1] = v]

\* range(c)
PyRange(c) == [x \in 1..c |-> x - 1]

\* l[a:b] for 0 <= a, 0 <= b
PySlice(l, a, b) ==
    LET hi == IF b > Len(l) THEN Len(l) ELSE b
    IN  SubSeq(l, a + 1, hi)

\* l[a:b] = v for 0 <= a <= len(l), 0 <= b <= len(l)
PySliceAssign(l, a, b, v) ==
    LET stop == IF b < a THEN a ELSE b
    IN  SubSeq(l, 1, a) \o v \o SubSeq(l, stop + 1, Len(l))

----------------------------------------------------------------------------
\* Inputs.

Pairs(c) == (1..c) \X (1..c)

SeqsUpTo(S, len) == UNION {[1..l -> S] : l \in 0..len}

\* The sequences over S of length at most len that repeat no element.
DistinctSeqsUpTo(S, len) ==
    {s \in SeqsUpTo(S, len) : \A x, y \in 1..Len(s) : x # y => s[x] # s[y]}

----------------------------------------------------------------------------
\* topsort.partial_order_to_grid

\* A grid allocated with one row too few.
NewGridShortRows(c) ==
    [a \in 1..(c + 1) |-> [b \in 1..(c + 1) |-> FALSE] \o <<TRUE>>]

\* A grid whose rows end in False instead of the sentinel.
NewGridNoSentinel(c) ==
    [a \in 1..(c + 2) |-> [b \in 1..(c + 1) |-> FALSE] \o <<FALSE>>]

\* [[False for j in xrange(n+1)]+[True] for i in xrange(n+2)]
NewGrid(c) ==
    [a \in 1..(c + 2) |-> [b \in 1..(c + 1) |-> FALSE] \o <<TRUE>>]

\* grid[a][b] = True
GridMark(g, a, b) == PySet(g, a, PySet(PyIdx(g, a), b, TRUE))

\* An assertion that lets i = j through.
AssertNotGreater(pair) == pair[1] <= pair[2]

\* assert i<j
AssertOk(pair) == pair[1] < pair[2]

\* Marking the cell (i,j) only.
MarkPairOneWay(g, a, b) == GridMark(g, a, b)

\* grid[i][j] = True; grid[j][i] = True
MarkPair(g, a, b) == GridMark(GridMark(g, a, b), b, a)

\* One iteration of the for loop whose assertion holds.
GridSet ==
    /\ pc = "po2grid"
    /\ idx <= Len(poset)
    /\ AssertOk(poset[idx])
    /\ grid' = MarkPair(grid, poset[idx][1], poset[idx][2])
    /\ idx' = idx + 1
    /\ UNCHANGED <<n, poset, pc, m, loc, p, i, k, kk, out, items, vres>>
    /\ UNCHANGED <<dfsVars, pairVars>>

\* One iteration of the for loop whose assertion fails.
GridAssertFail ==
    /\ pc = "po2grid"
    /\ idx <= Len(poset)
    /\ ~AssertOk(poset[idx])
    /\ pc' = "AssertionError"
    /\ UNCHANGED <<n, poset, idx, grid, m, loc, p, i, k, kk, out, items, vres>>
    /\ UNCHANGED <<dfsVars, pairVars>>

\* return grid; the caller passes it to vr_topsort(n, grid).
GridReturn ==
    /\ pc = "po2grid"
    /\ idx > Len(poset)
    /\ m' = grid
    /\ pc' = "vr_topsort"
    /\ UNCHANGED <<n, poset, idx, grid, loc, p, i, k, kk, out, items, vres>>
    /\ UNCHANGED <<dfsVars, pairVars>>

----------------------------------------------------------------------------
\* topsort.vr_topsort

\* A slice taken one position too early.
YieldedFromZero(pp, c) == PySlice(pp, 0, c)

\* p[1:n+1], the array handed to the consumer
Yielded(pp, c) == PySlice(pp, 1, c + 1)

\* A loop that stops one index early.
LoopCondShort(ii, c) == ii < c - 1

\* A loop that runs one index too far.
LoopCondInclusive(ii, c) == ii <= c

\* while i < n
LoopCond(ii, c) == ii < c

\* The grid looked up with the position kk instead of the value p[kk].
ComparableByPosition(mm, ii, pp, kk1) == PyIdx(PyIdx(mm, ii), kk1)

\* m[i][p[kk]]
Comparable(mm, ii, pp, kk1) == PyIdx(PyIdx(mm, ii), PyIdx(pp, kk1))

\* A rotation that leaves the array as it is.
RollRightSkipped(pp, ii, k1) == pp

\* A rotation that takes the slice one element too long: [p[k]]+p[i:k+1].
RollRightGrowing(pp, ii, k1) ==
    PySliceAssign(pp, ii, k1 + 1, <<PyIdx(pp, k1)>> \o PySlice(pp, ii, k1 + 1))

\* A rotation to the left: p[i:k+1] = p[i+1:k+1]+[p[i]].
RollLeft(pp, ii, k1) ==
    PySliceAssign(pp, ii, k1 + 1, PySlice(pp, ii + 1, k1 + 1) \o <<PyIdx(pp, ii)>>)

\* p[i:k+1] = [p[k]]+p[i:k]
RollRight(pp, ii, k1) ==
    PySliceAssign(pp, ii, k1 + 1, <<PyIdx(pp, k1)>> \o PySlice(pp, ii, k1))

\* The exchange written as two assignments in sequence: p[k] = p[kk]; p[kk] = p[k].
ExchangeSequential(pp, k1, kk1) ==
    LET p1 == PySet(pp, k1, PyIdx(pp, kk1))
    IN  PySet(p1, kk1, PyIdx(p1, k1))

\* p[k],p[kk] = p[kk],p[k]
Exchange(pp, k1, kk1) ==
    PySet(PySet(pp, k1, PyIdx(pp, kk1)), kk1, PyIdx(pp, k1))

\* A rotation that forgets to advance the cursor.
NextActiveStuck(ii) == ii

\* A cursor advanced by two.
NextActiveSkip(ii) == ii + 2

\* i += 1
NextActive(ii) == ii + 1

\* First pull: lines 39-43 up to the first yield.
FirstYield ==
    /\ pc = "vr_topsort"
    /\ loc' = PyRange(n + 1)
    /\ p' = PyRange(n + 2)
    /\ out' = Append(out, Yielded(PyRange(n + 2), n))
    /\ items' = Yielded(PyRange(n + 2), n)
    /\ i' = 1
    /\ k' = 1
    /\ pc' = "yielded"
    /\ UNCHANGED <<n, poset, idx, grid, m, kk, vres>>
    /\ UNCHANGED <<dfsVars, pairVars>>

\* A rotation that does not reset loc[i].
RotateNoReset ==
    /\ pc = "loop"
    /\ LoopCond(i, n)
    /\ LET k1 == PyIdx(loc, i)
           kk1 == k1 + 1
       IN  /\ Comparable(m, i, p, kk1)
           /\ k' = k1
           /\ kk' = kk1
           /\ p' = RollRight(p, i, k1)
           /\ i' = NextActive(i)
    /\ UNCHANGED <<n, poset, pc, idx, grid, m, loc, out, items, vres>>
    /\ UNCHANGED <<dfsVars, pairVars>>

\* Loop iteration taking the if branch: roll-right, no yield.
Rotate ==
    /\ pc = "loop"
    /\ LoopCond(i, n)
    /\ LET k1 == PyIdx(loc, i)
           kk1 == k1 + 1
       IN  /\ Comparable(m, i, p, kk1)
           /\ k' = k1
           /\ kk' = kk1
           /\ p' = RollRight(p, i, k1)
           /\ loc' = PySet(loc, i, i)
           /\ i' = NextActive(i)
    /\ UNCHANGED <<n, poset, pc, idx, grid, m, out, items, vres>>
    /\ UNCHANGED <<dfsVars, pairVars>>

\* A swap that does not reset the cursor to 1.
SwapKeepActive ==
    /\ pc = "loop"
    /\ LoopCond(i, n)
    /\ LET k1 == PyIdx(loc, i)
           kk1 == k1 + 1
           p1 == Exchange(p, k1, kk1)
       IN  /\ ~Comparable(m, i, p, kk1)
           /\ k' = k1
           /\ kk' = kk1
           /\ p' = p1
           /\ loc' = PySet(loc, i, kk1)
           /\ out' = Append(out, Yielded(p1, n))
           /\ items' = Yielded(p1, n)
           /\ pc' = "yielded"
    /\ UNCHANGED <<n, poset, idx, grid, m, i, vres>>
    /\ UNCHANGED <<dfsVars, pairVars>>

\* Loop iteration taking the else branch: adjacent swap and yield.
Swap ==
    /\ pc = "loop"
    /\ LoopCond(i, n)
    /\ LET k1 == PyIdx(loc, i)
           kk1 == k1 + 1
           p1 == Exchange(p, k1, kk1)
       IN  /\ ~Comparable(m, i, p, kk1)
           /\ k' = k1
           /\ kk' = kk1
           /\ p' = p1
           /\ loc' = PySet(loc, i, kk1)
           /\ i' = 1
           /\ out' = Append(out, Yielded(p1, n))
           /\ items' = Yielded(p1, n)
           /\ pc' = "yielded"
    /\ UNCHANGED <<n, poset, idx, grid, m, vres>>
    /\ UNCHANGED <<dfsVars, pairVars>>

\* The while condition fails: the generator is exhausted.
Exit ==
    /\ pc = "loop"
    /\ ~LoopCond(i, n)
    /\ pc' = "done"
    /\ UNCHANGED <<n, poset, idx, grid, m, loc, p, i, k, kk, out, items, vres>>
    /\ UNCHANGED <<dfsVars, pairVars>>

----------------------------------------------------------------------------
\* digraphtools: graphs, partial orders and order verification.
\* A graph maps a node to the list of its successors; graph_from_edges builds
\* each list from a set, so a list holds distinct nodes in an order the
\* interpreter chooses.  It is modelled as node |-> set of successors, and
\* every iteration order the dict and the lists allow is enumerated where
\* the graph is iterated (IterEdges).

\* [(a,b) for (b,a) in edges]
FromPartialOrder(edges) == [t \in 1..Len(edges) |-> <<edges[t][2], edges[t][1]>>]

GraphFromEdges(edges) ==
    LET nodes == {edges[t][1] : t \in 1..Len(edges)} \cup
                 {edges[t][2] : t \in 1..Len(edges)}
    IN  [a \in nodes |-> {edges[t][2] : t \in {u \in 1..Len(edges) : edges[u][1] = a}}]

\* ((a,b) for a in graph.iterkeys() for b in graph[a]): the sequences this
\* generator can produce, one for each iteration order of the keys and lists.
IterEdges(gr) ==
    LET E == {e \in (DOMAIN gr) \X (DOMAIN gr) : e[2] \in gr[e[1]]}
        c == Cardinality(E)
    IN  {s \in [1..c -> E] :
            /\ \A x, y \in 1..c : x # y => s[x] # s[y]
            /\ \A x, y, z \in 1..c :
                  (x < y /\ y < z /\ s[x][1] = s[z][1]) => s[y][1] = s[x][1]}

\* ((a,b) for b,a in iter_edges(graph))
IterPartialOrder(gr) ==
    {[t \in 1..Len(s) |-> <<s[t][2], s[t][1]>>] : s \in IterEdges(gr)}

\* dict((item,pos) for pos,item in enumerate(items)): later entries overwrite.
RECURSIVE ItemPos(_, _)
ItemPos(its, len) ==
    IF len = 0 THEN <<>>
    ELSE LET d == ItemPos(its, len - 1)
             item == its[len]
         IN  [x \in (DOMAIN d) \cup {item} |-> IF x = item THEN len - 1 ELSE d[x]]

\* A comparison that lets equal positions through.
OutOfOrderStrict(itempos, a, b) == itempos[a] > itempos[b]

\* itempos[a] >= itempos[b]
OutOfOrder(itempos, a, b) == itempos[a] >= itempos[b]

\* The for loop of verify_partial_order from pair t on.
RECURSIVE VerifyFrom(_, _, _)
VerifyFrom(partial_order, itempos, t) ==
    IF t > Len(partial_order) THEN "ok"
    ELSE LET a == partial_order[t][1]
             b == partial_order[t][2]
         IN  IF a \notin DOMAIN itempos \/ b \notin DOMAIN itempos
             THEN "KeyError"
             ELSE IF OutOfOrder(itempos, a, b)
                  THEN "OrderViolationException"
                  ELSE VerifyFrom(partial_order, itempos, t + 1)

VerifyPartialOrder(partial_order, its) ==
    VerifyFrom(partial_order, ItemPos(its, Len(its)), 1)

\* A direct call of verify_partial_order(partial_order, items).
VerifyCall ==
    /\ pc = "verify_partial_order"
    /\ vres' = VerifyPartialOrder(poset, items)
    /\ pc' = "verified"
    /\ UNCHANGED <<n, poset, idx, grid, m, loc, p, i, k, kk, out, items>>
    /\ UNCHANGED <<dfsVars, pairVars>>

\* Body of the consumer loop of test_vr_topsort: the yielded array le is
\* verified against the partial order of the graph; the generator is pulled
\* again unless the verification raised.
Verify ==
    /\ pc = "yielded"
    /\ \E po \in IterPartialOrder(GraphFromEdges(FromPartialOrder(poset))) :
          /\ vres' = VerifyPartialOrder(po, items)
          /\ pc' = IF VerifyPartialOrder(po, items) = "ok"
                   THEN "loop" ELSE VerifyPartialOrder(po, items)
    /\ UNCHANGED <<n, poset, idx, grid, m, loc, p, i, k, kk, out, items>>
    /\ UNCHANGED <<dfsVars, pairVars>>

----------------------------------------------------------------------------
\* digraphtools.postorder_traversal and dfs_topsort_traversal.
\* Here a graph maps each node to the list (sequence) of its successors.
\* The nested generators of postorder_traversal are the frames of stack:
\* a frame <<v, c>> is the generator for node v whose for loop will next
\* take the c-th entry of graph[v].

Range(s) == {s[t] : t \in 1..Len(s)}

\* The nodes reachable from the nodes of S along edges of g (S included).
RECURSIVE ReachableFrom(_, _)
ReachableFrom(g, S) ==
    LET T == S \cup UNION {Range(g[a]) : a \in S}
    IN  IF T = S THEN S ELSE ReachableFrom(g, T)

Acyclic(g) == \A a \in DOMAIN g : a \notin ReachableFrom(g, Range(g[a]))

\* The graphs on the nodes 1..a with the edge set E: one for every order of
\* every successor list.
RECURSIVE GraphsOf(_, _)
GraphsOf(E, a) ==
    IF a = 0 THEN {<<>>}
    ELSE LET succ == {e[2] : e \in {d \in E : d[1] = a}}
             lists == {s \in [1..Cardinality(succ) -> succ] :
                          \A x, y \in DOMAIN s : x # y => s[x] # s[y]}
         IN  {Append(f, s) : f \in GraphsOf(E, a - 1), s \in lists}

\* A filter that lets every node through.
NotSeenAlways(v, seenset) == TRUE

\* if n not in seen
NotSeen(v, seenset) == v \notin seenset

\* No traversal, no enumeration run, no paired runs in this scenario.
NoDfs ==
    /\ graph = <<>>
    /\ root = 0
    /\ stack = <<>>
    /\ seen = {}
    /\ trav = <<>>

NoPair ==
    /\ runs = <<>>
    /\ got = <<>>
    /\ stopped = <<>>

NoTopsort ==
    /\ n = 0
    /\ poset = <<>>
    /\ idx = 1
    /\ grid = <<>>
    /\ m = <<>>
    /\ loc = <<>>
    /\ p = <<>>
    /\ i = 0
    /\ k = 0
    /\ kk = 0
    /\ out = <<>>
    /\ vres = "none"

\* First pull: seen = set(), and postorder_traversal(graph, root) is entered.
DfsStart ==
    /\ pc = "dfs_topsort_traversal"
    /\ seen' = {}
    /\ stack' = <<<<root, 1>>>>
    /\ pc' = "postorder"
    /\ UNCHANGED <<graph, root, trav>>
    /\ UNCHANGED <<n, poset, idx, grid, m, loc, p, i, k, kk, out, items, vres>>
    /\ UNCHANGED pairVars

\* for n in graph[root]: the innermost generator enters the generator of its
\* next successor.
DfsDescend ==
    /\ pc = "postorder"
    /\ stack # <<>>
    /\ LET top == stack[Len(stack)]
           v == top[1]
           c == top[2]
       IN  /\ c <= Len(graph[v])
           /\ stack' = Append([stack EXCEPT ![Len(stack)] = <<v, c + 1>>],
                              <<graph[v][c], 1>>)
    /\ UNCHANGED <<graph, root, seen, trav>>
    /\ UNCHANGED <<n, poset, idx, grid, m, loc, p, i, k, kk, out, items, vres, pc>>
    /\ UNCHANGED pairVars

\* yield root of the innermost generator, which then ends; the node was not
\* seen: dfs_topsort_traversal yields it and adds it to seen.
DfsYieldNew ==
    /\ pc = "postorder"
    /\ stack # <<>>
    /\ LET top == stack[Len(stack)]
           v == top[1]
           c == top[2]
       IN  /\ c > Len(graph[v])
           /\ NotSeen(v, seen)
           /\ trav' = Append(trav, v)
           /\ seen' = seen \cup {v}
           /\ stack' = SubSeq(stack, 1, Len(stack) - 1)
    /\ UNCHANGED <<graph, root>>
    /\ UNCHANGED <<n, poset, idx, grid, m, loc, p, i, k, kk, out, items, vres, pc>>
    /\ UNCHANGED pairVars

\* yield root of the innermost generator, which then ends; the node was
\* seen already: dfs_topsort_traversal drops it.
DfsSkipSeen ==
    /\ pc = "postorder"
    /\ stack # <<>>
    /\ LET top == stack[Len(stack)]
           v == top[1]
           c == top[2]
       IN  /\ c > Len(graph[v])
           /\ ~NotSeen(v, seen)
           /\ stack' = SubSeq(stack, 1, Len(stack) - 1)
    /\ UNCHANGED <<graph, root, seen, trav>>
    /\ UNCHANGED <<n, poset, idx, grid, m, loc, p, i, k, kk, out, items, vres, pc>>
    /\ UNCHANGED pairVars

\* The outermost generator has ended: the traversal is exhausted.
DfsExit ==
    /\ pc = "postorder"
    /\ stack = <<>>
    /\ pc' = "dfs_done"
    /\ UNCHANGED dfsVars
    /\ UNCHANGED <<n, poset, idx, grid, m, loc, p, i, k, kk, out, items, vres>>
    /\ UNCHANGED pairVars

----------------------------------------------------------------------------
\* test_vr_topsort: partial_order_to_grid(poset, n) has allocated the grid
\* and is about to iterate over poset.
InitTopsortWith(maxn, maxlen) ==
    /\ n \in 1..maxn
    /\ poset \in SeqsUpTo(Pairs(n), maxlen)
    /\ pc = "po2grid"
    /\ idx = 1
    /\ grid = NewGrid(n)
    /\ m = <<>>
    /\ loc = <<>>
    /\ p = <<>>
    /\ i = 0
    /\ k = 0
    /\ kk = 0
    /\ out = <<>>
    /\ items = <<>>
    /\ vres = "none"
    /\ NoDfs
    /\ NoPair

InitTopsort == InitTopsortWith(MaxN, MaxLen)

\* A caller about to call verify_partial_order(poset, items).
InitVerify ==
    /\ n \in 1..MaxVN
    /\ poset \in SeqsUpTo(Pairs(n), MaxVLen)
    /\ items \in DistinctSeqsUpTo(1..n, n)
    /\ pc = "verify_partial_order"
    /\ idx = 1
    /\ grid = <<>>
    /\ m = <<>>
    /\ loc = <<>>
    /\ p = <<>>
    /\ i = 0
    /\ k = 0
    /\ kk = 0
    /\ out = <<>>
    /\ vres = "none"
    /\ NoDfs
    /\ NoPair

\* A caller about to pull dfs_topsort_traversal(graph, root) on an acyclic
\* graph whose successor lists hold distinct nodes.
InitDfs ==
    /\ \E g \in 1..MaxG :
          \E E \in SUBSET {e \in (1..g) \X (1..g) : e[1] # e[2]} :
              /\ graph \in GraphsOf(E, g)
              /\ root \in 1..g
    /\ Acyclic(graph)
    /\ stack = <<>>
    /\ seen = {}
    /\ trav = <<>>
    /\ pc = "dfs_topsort_traversal"
    /\ NoTopsort
    /\ items = <<>>
    /\ NoPair

Init == InitTopsort \/ InitVerify \/ InitDfs

Next ==
    \/ GridSet
    \/ GridAssertFail
    \/ GridReturn
    \/ FirstYield
    \/ Rotate
    \/ Swap
    \/ Exit
    \/ Verify
    \/ VerifyCall
    \/ DfsStart
    \/ DfsDescend
    \/ DfsYieldNew
    \/ DfsSkipSeen
    \/ DfsExit

Spec == Init /\ [][Next]_vars

\* test_vr_topsort alone: the grid is built, then the for loop pulls the
\* generator and verifies each array until the generator is exhausted.
NextTopsort ==
    \/ GridSet
    \/ GridAssertFail
    \/ GridReturn
    \/ FirstYield
    \/ Rotate
    \/ Swap
    \/ Exit
    \/ Verify

\* The for loop keeps pulling: no step that can be taken is postponed forever.
InitFair == InitTopsortWith(MaxFairN, MaxFairLen)

FairSpec == InitFair /\ [][NextTopsort]_vars /\ WF_vars(NextTopsort)

----------------------------------------------------------------------------
\* Several vr_topsort generators over one grid, each pulled by its own
\* consumer.  A pull (next()) runs a generator up to its next yield or to
\* its end; pulls of different generators interleave in any order.

RunIds == 1..2

\* All consumers driving one and the same generator state.
OwnerShared(r) == 1

\* Each call vr_topsort(n, m) creates its own loc, p, i, k, kk: consumer r
\* drives the generator state r.
Owner(r) == r

\* A generator that has been created and not pulled yet.
GenInit == [pc |-> "vr_topsort", loc |-> <<>>, p |-> <<>>, i |-> 0, k |-> 0, kk |-> 0]

\* One next() on generator state st: the state it leaves and the value it
\* yields (val = <<array>>), or val = <<>> when it raises StopIteration.
RECURSIVE NextPull(_, _, _)
NextPull(st, c, mm) ==
    IF st.pc = "vr_topsort"
    THEN [st |-> [st EXCEPT !.pc = "loop", !.loc = PyRange(c + 1),
                            !.p = PyRange(c + 2), !.i = 1, !.k = 1],
          val |-> <<Yielded(PyRange(c + 2), c)>>]
    ELSE IF st.pc = "done"
    THEN [st |-> st, val |-> <<>>]
    ELSE IF ~LoopCond(st.i, c)
    THEN [st |-> [st EXCEPT !.pc = "done"], val |-> <<>>]
    ELSE LET k1 == PyIdx(st.loc, st.i)
             kk1 == k1 + 1
         IN  IF Comparable(mm, st.i, st.p, kk1)
             THEN NextPull([st EXCEPT !.k = k1, !.kk = kk1,
                                      !.p = RollRight(st.p, st.i, k1),
                                      !.loc = PySet(st.loc, st.i, st.i),
                                      !.i = NextActive(st.i)], c, mm)
             ELSE [st |-> [st EXCEPT !.k = k1, !.kk = kk1,
                                     !.p = Exchange(st.p, k1, kk1),
                                     !.loc = PySet(st.loc, st.i, kk1),
                                     !.i = 1],
                   val |-> <<Yielded(Exchange(st.p, k1, kk1), c)>>]

\* partial_order_to_grid(poset, n) for pairs that pass the assertion.
RECURSIVE GridAfter(_, _, _)
GridAfter(po, c, t) ==
    IF t = 0 THEN NewGrid(c)
    ELSE MarkPair(GridAfter(po, c, t - 1), po[t][1], po[t][2])

PartialOrderToGrid(po, c) == GridAfter(po, c, Len(po))

\* Consumer r pulls its generator and receives an array.
Pull ==
    /\ pc = "pair"
    /\ \E r \in RunIds :
          LET res == NextPull(runs[Owner(r)], n, m)
          IN  /\ ~stopped[r]
              /\ res.val # <<>>
              /\ runs' = [runs EXCEPT ![Owner(r)] = res.st]
              /\ got' = [got EXCEPT ![r] = Append(@, res.val[1])]
              /\ UNCHANGED stopped
    /\ UNCHANGED <<n, poset, pc, idx, grid, m, loc, p, i, k, kk, out, items, vres>>
    /\ UNCHANGED dfsVars

\* Consumer r pulls its generator, which is exhausted: its for loop ends.
PullExhausted ==
    /\ pc = "pair"
    /\ \E r \in RunIds :
          LET res == NextPull(runs[Owner(r)], n, m)
          IN  /\ ~stopped[r]
              /\ res.val = <<>>
              /\ runs' = [runs EXCEPT ![Owner(r)] = res.st]
              /\ stopped' = [stopped EXCEPT ![r] = TRUE]
              /\ UNCHANGED got
    /\ UNCHANGED <<n, poset, pc, idx, grid, m, loc, p, i, k, kk, out, items, vres>>
    /\ UNCHANGED dfsVars

\* The grid has been built from valid pairs and one generator per consumer
\* has been created on it.
InitPair ==
    /\ n \in 1..MaxPairN
    /\ poset \in SeqsUpTo({e \in Pairs(n) : AssertOk(e)}, MaxPairLen)
    /\ grid = PartialOrderToGrid(poset, n)
    /\ m = grid
    /\ idx = Len(poset) + 1
    /\ pc = "pair"
    /\ runs = [r \in RunIds |-> GenInit]
    /\ got = [r \in RunIds |-> <<>>]
    /\ stopped = [r \in RunIds |-> FALSE]
    /\ loc = <<>>
    /\ p = <<>>
    /\ i = 0
    /\ k = 0
    /\ kk = 0
    /\ out = <<>>
    /\ items = <<>>
    /\ vres = "none"
    /\ NoDfs

NextPair ==
    \/ Pull
    \/ PullExhausted

SpecPair == InitPair /\ [][NextPair]_vars

----------------------------------------------------------------------------
\* Vocabulary of the properties.

\* The constraint pairs all satisfy i < j.
ValidPairs == \A t \in 1..Len(poset) : poset[t][1] < poset[t][2]

\* The set of the constraint pairs.
PairSet == {poset[t] : t \in 1..Len(poset)}

\* The position (1-based) of value v in array arr.
PosIn(arr, v) == CHOOSE x \in 1..Len(arr) : arr[x] = v

IsPermutation(arr) ==
    /\ Len(arr) = n
    /\ \A v \in 1..n : \E x \in 1..n : arr[x] = v

Respects(arr) == \A e \in PairSet : PosIn(arr, e[1]) < PosIn(arr, e[2])

\* All linear extensions of the constraint set, computed by filtering every
\* arrangement of 1..n.
LinearExtensions ==
    {arr \in [1..n -> 1..n] : IsPermutation(arr) /\ Respects(arr)}

\* a and b differ in exactly two positions, whose values are exchanged.
OneSwap(a, b) ==
    /\ Len(a) = Len(b)
    /\ \E x, y \in 1..Len(a) :
          /\ x < y
          /\ a[x] # a[y]
          /\ b[x] = a[y]
          /\ b[y] = a[x]
          /\ \A z \in 1..Len(a) : (z # x /\ z # y) => b[z] = a[z]

\* As OneSwap, for two adjacent positions.
AdjacentSwap(a, b) ==
    /\ Len(a) = Len(b)
    /\ \E x \in 1..(Len(a) - 1) :
          /\ a[x] # a[x + 1]
          /\ b[x] = a[x + 1]
          /\ b[x + 1] = a[x]
          /\ \A z \in 1..Len(a) : (z # x /\ z # x + 1) => b[z] = a[z]

\* The grid has been returned to the caller of partial_order_to_grid.
GridReturned == pc \in {"vr_topsort", "yielded", "loop", "done"}

----------------------------------------------------------------------------
\* C1: every array yielded by vr_topsort on a grid built from valid pairs is
\* a permutation of 1..n that places i before j for every constraint (i,j).
C1_Validity ==
    \A t \in 1..Len(out) : IsPermutation(out[t]) /\ Respects(out[t])

C1_Witness ==
    /\ pc = "done"
    /\ Len(poset) >= 2
    /\ Len(out) >= 3

\* C2: when the run is exhausted the yielded arrays are exactly the linear
\* extensions of the constraint set, and their number is the number of
\* linear extensions.
C2_Exhaustive ==
    pc = "done" =>
        /\ {out[t] : t \in 1..Len(out)} = LinearExtensions
        /\ Len(out) = Cardinality(LinearExtensions)

C2_Witness ==
    /\ pc = "done"
    /\ n = 3
    /\ PairSet = {<<1, 2>>}
    /\ Len(out) = 3

\* C3: no array is yielded twice in a run.
C3_NoDuplicates ==
    \A t, u \in 1..Len(out) : t # u => out[t] # out[u]

C3_Witness ==
    /\ pc = "done"
    /\ Len(out) >= 5
    /\ Len(poset) >= 1

\* C4 as stated: every yield after the first differs from the yield before it
\* by exactly one pairwise swap.
C4_OneSwapBetweenYields ==
    \A t \in 2..Len(out) : OneSwap(out[t - 1], out[t])

\* C4 amended: a yielding step exchanges two adjacent positions of the
\* working order, and when no rotation happened since the previous yield
\* (active is still 1) the new yield differs from the previous yield by
\* exactly that adjacent swap.
C4_AdjacentSwapStep ==
    [][(Len(out) >= 1 /\ out' # out) =>
          /\ AdjacentSwap(SubSeq(p, 2, n + 1), out'[Len(out')])
          /\ (i = 1 => AdjacentSwap(out[Len(out)], out'[Len(out')]))]_vars

\* A yield that follows a rotation and differs from the yield before it in
\* more than two positions.
C4_Witness ==
    /\ Len(out) >= 2
    /\ pc = "yielded"
    /\ k > 1
    /\ ~OneSwap(out[Len(out) - 1], out[Len(out)])

\* C5: a run that is pulled repeatedly terminates: the loop exits.
C5_Termination == (pc = "vr_topsort") ~> (pc = "done")

C5_Witness ==
    /\ pc = "done"
    /\ i = n
    /\ Len(out) >= 4

\* C6: the first array yielded is [1, 2, ..., n], and nothing is swapped or
\* rotated before it is yielded.
C6_FirstIsSeed ==
    /\ Len(out) >= 1 => out[1] = [x \in 1..n |-> x]
    /\ (Len(out) = 1 /\ pc = "yielded") =>
          /\ p = [x \in 1..(n + 2) |-> x - 1]
          /\ loc = [x \in 1..(n + 1) |-> x - 1]
    /\ pc \in {"po2grid", "vr_topsort", "AssertionError"} =>
          (out = <<>> /\ p = <<>> /\ loc = <<>>)

C6_Witness ==
    /\ Len(out) = 1
    /\ pc = "yielded"
    /\ n >= 2
    /\ Len(poset) >= 1

\* C7: in the grid returned for valid pairs, for all a, b in 1..n the cell
\* grid[a][b] is true exactly when (a,b) or (b,a) is a given pair; hence the
\* grid is symmetric and its diagonal is false on 1..n.
C7_GridIffPairs ==
    GridReturned =>
        \A a, b \in 1..n :
            /\ PyIdx(PyIdx(m, a), b) <=> (<<a, b>> \in PairSet \/ <<b, a>> \in PairSet)
            /\ PyIdx(PyIdx(m, a), b) = PyIdx(PyIdx(m, b), a)
            /\ ~PyIdx(PyIdx(m, a), a)

C7_Witness ==
    /\ pc = "vr_topsort"
    /\ n >= 3
    /\ Cardinality(PairSet) >= 2

\* C8: the grid has n+2 rows of n+2 cells and the cell n+1 of every row
\* 0..n+1 is true, whatever the pairs are.
C8_GridShapeSentinel ==
    GridReturned =>
        /\ Len(m) = n + 2
        /\ \A a \in 0..(n + 1) :
              /\ Len(PyIdx(m, a)) = n + 2
              /\ PyIdx(PyIdx(m, a), n + 1) = TRUE

C8_Witness ==
    /\ pc = "vr_topsort"
    /\ \/ poset = <<>>
       \/ \E t \in 1..Len(poset) : poset[t][2] = n

\* C9: when some pair has i >= j, construction aborts at the first such pair
\* with an assertion failure and no grid is returned.
C9_InvalidPairAborts ==
    /\ GridReturned => ValidPairs
    /\ pc = "AssertionError" =>
          /\ m = <<>>
          /\ idx \in 1..Len(poset)
          /\ poset[idx][1] >= poset[idx][2]
    /\ (pc = "po2grid" /\ ~ValidPairs) =>
          \E t \in idx..Len(poset) : poset[t][1] >= poset[t][2]

C9_Witness ==
    /\ pc = "AssertionError"
    /\ idx = 2
    /\ poset[idx][1] = poset[idx][2]

\* C10: for items without repeats that contain every element named in the
\* pairs, verify_partial_order raises OrderViolationException exactly when
\* some pair (a,b) has a positioned at or after b, and returns otherwise;
\* every array yielded by vr_topsort passes the verification.
NoRepeats(its) == \A x, y \in 1..Len(its) : x # y => its[x] # its[y]

Named(po) == {po[t][1] : t \in 1..Len(po)} \cup {po[t][2] : t \in 1..Len(po)}

Contains(its, S) == \A v \in S : \E x \in 1..Len(its) : its[x] = v

C10_VerifyIff ==
    /\ (pc = "verified" /\ NoRepeats(items) /\ Contains(items, Named(poset))) =>
          /\ vres \in {"ok", "OrderViolationException"}
          /\ vres = "OrderViolationException" <=>
                \E e \in PairSet : PosIn(items, e[1]) >= PosIn(items, e[2])
    /\ (pc \in {"loop", "done"}) => vres = "ok"
    /\ pc \notin {"OrderViolationException", "KeyError"}

C10_Witness ==
    /\ pc = "verified"
    /\ NoRepeats(items)
    /\ Contains(items, Named(poset))
    /\ Len(poset) = 2
    /\ vres = "OrderViolationException"
    /\ PosIn(items, poset[1][1]) < PosIn(items, poset[1][2])

\* The enumerator has been pulled at least once.
RunStarted == pc \in {"yielded", "loop", "done"}

\* C11: for n = 1 the only array yielded is [1], and the run is exhausted
\* without a swap or rotation step: the loop body never runs (kk is never
\* assigned, p and loc keep their initial values).
C11_SingleElement ==
    (n = 1 /\ RunStarted) =>
        /\ out = <<<<1>>>>
        /\ kk = 0
        /\ i = 1
        /\ p = <<0, 1, 2>>
        /\ loc = <<0, 1>>

C11_Witness ==
    /\ n = 1
    /\ pc = "done"
    /\ out = <<<<1>>>>

\* C13: in every state of a run, after rotations as well as after swaps,
\* positions 1..n of the working array hold a permutation of 1..n that is a
\* linear extension of the constraint pairs.
C13_WorkingOrderValid ==
    RunStarted =>
        /\ Len(p) = n + 2
        /\ IsPermutation(SubSeq(p, 2, n + 1))
        /\ Respects(SubSeq(p, 2, n + 1))

\* A rotation that moved values has just been taken.
C13_Witness ==
    /\ pc = "loop"
    /\ i >= 2
    /\ k > i - 1
    /\ Len(poset) >= 1
    /\ SubSeq(p, 2, n + 1) # out[Len(out)]

\* C14: loc[x] lies in [x, n] for every x in 1..n-1, so kk never exceeds
\* n+1; the cell n+1 of p always holds n+1; and when kk = n+1 the sentinel
\* makes the comparability test true, so a rotation is taken, not a swap.
C14_BoundInRange ==
    RunStarted =>
        /\ \A x \in 1..(n - 1) : x <= PyIdx(loc, x) /\ PyIdx(loc, x) <= n
        /\ kk <= n + 1
        /\ PyIdx(p, n + 1) = n + 1
        /\ (pc = "loop" /\ LoopCond(i, n) /\ PyIdx(loc, i) = n) =>
              Comparable(m, i, p, n + 1)
        /\ (pc = "yielded" /\ Len(out) >= 2) => kk <= n

\* The cursor's value has been walked to the last position n.
C14_Witness ==
    /\ pc = "loop"
    /\ i < n
    /\ PyIdx(loc, i) = n
    /\ n >= 2

\* C15: a step taken when active is comparable with the value at position
\* k+1 (k = loc[active]) moves the value at k to position active, shifts the
\* values at active..k-1 one position right, sets loc[active] = active,
\* increases active by one, yields nothing and changes nothing else.
C15_RotateFrame ==
    [][(pc = "loop" /\ LoopCond(i, n) /\ Comparable(m, i, p, PyIdx(loc, i) + 1)) =>
          LET b == PyIdx(loc, i)
          IN  /\ Len(p') = Len(p)
              /\ PyIdx(p', i) = PyIdx(p, b)
              /\ \A x \in i..(b - 1) : PyIdx(p', x + 1) = PyIdx(p, x)
              /\ \A x \in 0..(n + 1) : (x < i \/ x > b) => PyIdx(p', x) = PyIdx(p, x)
              /\ PyIdx(loc', i) = i
              /\ \A x \in 0..n : x # i => PyIdx(loc', x) = PyIdx(loc, x)
              /\ Len(loc') = Len(loc)
              /\ i' = i + 1
              /\ out' = out
              /\ pc' = "loop"
              /\ m' = m]_vars

\* A rotation of at least three values has just been taken.
C15_Witness ==
    /\ pc = "loop"
    /\ i >= 2
    /\ k >= i + 1
    /\ kk = k + 1
    /\ PyIdx(loc, i - 1) = i - 1

\* C16: a step taken when active is not comparable with the value at
\* position k+1 (k = loc[active]) exchanges the values at k and k+1, sets
\* loc[active] = k+1, resets active to 1, yields the resulting order and
\* changes nothing else; and an array is yielded after the first exactly by
\* such a step.
C16_SwapFrame ==
    [][/\ (pc = "loop" /\ LoopCond(i, n) /\ ~Comparable(m, i, p, PyIdx(loc, i) + 1)) =>
             LET b == PyIdx(loc, i)
             IN  /\ Len(p') = Len(p)
                 /\ PyIdx(p', b) = PyIdx(p, b + 1)
                 /\ PyIdx(p', b + 1) = PyIdx(p, b)
                 /\ \A x \in 0..(n + 1) : (x # b /\ x # b + 1) => PyIdx(p', x) = PyIdx(p, x)
                 /\ PyIdx(loc', i) = b + 1
                 /\ \A x \in 0..n : x # i => PyIdx(loc', x) = PyIdx(loc, x)
                 /\ Len(loc') = Len(loc)
                 /\ i' = 1
                 /\ out' = Append(out, SubSeq(p', 2, n + 1))
                 /\ m' = m
       /\ (out' # out /\ Len(out) >= 1) =>
             (pc = "loop" /\ LoopCond(i, n) /\ ~Comparable(m, i, p, PyIdx(loc, i) + 1))]_vars

\* A swap taken by a cursor other than 1 has just yielded.
C16_Witness ==
    /\ pc = "yielded"
    /\ Len(out) >= 2
    /\ PyIdx(loc, 1) = 1
    /\ k >= 2
    /\ i = 1

\* C17 as stated: the cursor stays within [1, n-1] up to and including the
\* terminal state.
C17_ActiveBelowN ==
    RunStarted => (1 <= i /\ i <= n - 1)

\* C17 amended: the cursor stays within [1, n]; it is 1 at every yield, it
\* is n in the terminal state, and it is n only when the loop test is about
\* to fail or has failed.
C17_ActiveRange ==
    RunStarted =>
        /\ 1 <= i /\ i <= n
        /\ pc = "yielded" => i = 1
        /\ pc = "done" => i = n
        /\ (pc = "loop" /\ i = n) => ~LoopCond(i, n)

C17_Witness ==
    /\ pc = "done"
    /\ i = n
    /\ n >= 3
    /\ Len(out) >= 2

\* C19: at the start of every loop iteration the value active sits at
\* position loc[active], and every smaller index is at its home position
\* with its bound reset; so the value moved by the step is the value active.
C19_ActiveAtBound ==
    pc = "loop" =>
        /\ PyIdx(p, PyIdx(loc, i)) = i
        /\ \A j \in 1..(i - 1) : PyIdx(p, j) = j /\ PyIdx(loc, j) = j

\* An iteration is about to move the value active, which is away from home,
\* after smaller indices were rotated home.
C19_Witness ==
    /\ pc = "loop"
    /\ i >= 2
    /\ i < n
    /\ PyIdx(loc, i) > i

\* C20: in the terminal state the working array is the seed ordering again
\* and loc[x] = x for every x: only the cursor differs from the initial state.
C20_TerminalIsSeed ==
    pc = "done" =>
        /\ p = [x \in 1..(n + 2) |-> x - 1]
        /\ loc = [x \in 1..(n + 1) |-> x - 1]
        /\ i = n

C20_Witness ==
    /\ pc = "done"
    /\ n >= 3
    /\ Len(out) >= 3
    /\ Len(poset) >= 1

\* C12: on an acyclic graph dfs_topsort_traversal yields every node reachable
\* from root exactly once, each node after all the nodes it has an edge to
\* (so the result passes verify_partial_order for the partial order of the
\* reachable subgraph), and root last.
RECURSIVE SeqOfSet(_)
SeqOfSet(S) ==
    IF S = {} THEN <<>>
    ELSE LET e == CHOOSE x \in S : TRUE
         IN  <<e>> \o SeqOfSet(S \ {e})

\* The pairs (successor, node) of the subgraph reachable from root.
ReachablePartialOrder ==
    LET R == ReachableFrom(graph, {root})
    IN  SeqOfSet({e \in R \X R : e[1] \in Range(graph[e[2]])})

C12_DfsTopsort ==
    /\ pc \in {"postorder", "dfs_done"} =>
          /\ \A t, u \in 1..Len(trav) : t # u => trav[t] # trav[u]
          /\ \A t \in 1..Len(trav) :
                /\ trav[t] \in ReachableFrom(graph, {root})
                /\ \A b \in Range(graph[trav[t]]) : \E u \in 1..(t - 1) : trav[u] = b
    /\ pc = "dfs_done" =>
          /\ Range(trav) = ReachableFrom(graph, {root})
          /\ trav[Len(trav)] = root
          /\ VerifyPartialOrder(ReachablePartialOrder, trav) = "ok"

\* A node reached along two paths was dropped the second time.
C12_Witness ==
    /\ pc = "dfs_done"
    /\ Len(trav) = 3
    /\ Len(graph[root]) = 2
    /\ \E a \in Range(graph[root]) : graph[a] # <<>>

\* C18: two runs over the same grid, each with its own state and pulled in
\* any interleaving, each yield exactly the sequence a run pulled alone
\* yields, and no pull modifies the grid.
RECURSIVE YieldsFrom(_, _, _)
YieldsFrom(st, c, mm) ==
    LET res == NextPull(st, c, mm)
    IN  IF res.val = <<>> THEN <<>> ELSE res.val \o YieldsFrom(res.st, c, mm)

\* What one generator pulled alone to exhaustion yields.
SoloYields == YieldsFrom(GenInit, n, m)

IsPrefix(a, b) == Len(a) <= Len(b) /\ a = SubSeq(b, 1, Len(a))

====
